---- MODULE Spec2Model ----
(***************************************************************************)
(* A model of the useTemporaryDisclosure hook: one boolean flag, isOpen,   *)
(* and three operations (openFor, openIn, closeIn) that write it through   *)
(* timers.  The repository holds two variants of the hook: the one in      *)
(* src/unnamed/part_002 reads the options `duration` and `callback`, the   *)
(* one in src/src/useTemporaryDisclosure/index.ts reads `t` and            *)
(* `callBack`.                                                             *)
(*                                                                         *)
(* Spec is the hook of part_002 called with the names it reads; SpecNames *)
(* is either variant called with either set of names.                      *)
(*                                                                         *)
(* The timer queue and the clock are the platform's.  A timer registered   *)
(* with setTimeout(f, d) runs once max(d, 0) time units have passed; the   *)
(* timers that are due run in the order of registration, and a due timer   *)
(* runs before the clock advances again.  Time is kept per timer (what     *)
(* remains, what has elapsed), so a run is not bounded by a clock.         *)
(***************************************************************************)
EXTENDS Integers, Sequences, FiniteSets

VARIABLES variant, isOpen, mounted, timers, calls, log

vars == <<variant, isOpen, mounted, timers, calls, log>>

\* ---------------------------------------------------------------- bounds
\* The number of openFor/openIn/closeIn calls of a run.
MaxCalls == 2
\* The largest duration a caller supplies.
MaxDuration == 1
\* The number of calls of a run that passes options under any names.
MaxNamedCalls == 1

\* ------------------------------------------------------------ the options
\* An optional field is the empty set when omitted and {v} when present.
Durations == {{}} \cup {{d} : d \in (-1)..MaxDuration}
Callbacks == {{}, {"cb"}}

\* What a caller can pass: an object with the documented names, or one with
\* the names the older variant reads.
TemporaryDisclosureFunctionOpts ==
    {[duration |-> d, callback |-> c, t |-> {}, callBack |-> {}] :
        d \in Durations, c \in Callbacks}
    \cup
    {[duration |-> {}, callback |-> {}, t |-> d, callBack |-> c] :
        d \in Durations, c \in Callbacks}

Variants == {"duration", "t"}

\* `x || 0` on an optional number: undefined and 0 are falsy, every other
\* number (a negative one too) passes through.
OrZero(x) == IF x = {} \/ x = {0} THEN 0 ELSE CHOOSE v \in x : TRUE

\* The second argument of setTimeout: opts.duration || 0, or opts.t || 0.
Delay(v, opts) ==
    IF v = "duration" THEN OrZero(opts.duration) ELSE OrZero(opts.t)

\* The procedure the timer body reads: opts.callback, or opts.callBack.
Callback(v, opts) ==
    IF v = "duration" THEN opts.callback ELSE opts.callBack

\* A timer queue that takes a negative timeout as it is.
Clamp_None(d) == d

\* setTimeout treats a negative timeout as 0.
Clamp(d) == IF d < 0 THEN 0 ELSE d

\* A setter that toggles the flag instead of setting it.
setIsOpen_Toggle(v) == IF mounted THEN ~isOpen ELSE isOpen

\* A setter whose update reaches the state of an unmounted instance too.
setIsOpen_Unmounted(v) == v

\* useState's setter: the update is applied to a mounted instance and
\* dropped on an unmounted one.
setIsOpen(v) == IF mounted THEN v ELSE isOpen

\* The calls made so far are numbered 1, 2, ...; a timer carries the number
\* of the call that registered it and the length of the trace at that
\* call.  A call is recorded with its operation and its options.
nextId == Len(calls) + 1

\* A setTimeout call that drops the delay.
setTimeout_NoDelay(op, nextState, opts) ==
    timers \cup {[id        |-> Len(calls) + 1,
                  op        |-> op,
                  nextState |-> nextState,
                  opts      |-> opts,
                  remaining |-> 0,
                  elapsed   |-> 0,
      seen      |-> Len(log)]}

\* A setTimeout call that clears the timers pending before it.
setTimeout_Replacing(op, nextState, opts) ==
    {[id        |-> Len(calls) + 1,
      op        |-> op,
      nextState |-> nextState,
      opts      |-> opts,
      remaining |-> Clamp(Delay(variant, opts)),
      elapsed   |-> 0,
      seen      |-> Len(log)]}

\* setTimeout(body, delay): one more pending timer; none is replaced.
setTimeout(op, nextState, opts) ==
    timers \cup {[id        |-> nextId,
                  op        |-> op,
                  nextState |-> nextState,
                  opts      |-> opts,
                  remaining |-> Clamp(Delay(variant, opts)),
                  elapsed   |-> 0,
      seen      |-> Len(log)]}

\* An entry of the trace of what the hook did: setIsOpen(val) or the
\* invocation of the callback cb, issued in the body of the call `id`
\* (phase "call") or in the body of its timer (phase "timer"), `after` time
\* units from the call.  args are the arguments passed.
Event(ev, phase, id, args, cb, after) ==
    [ev |-> ev, phase |-> phase, id |-> id, args |-> args, cb |-> cb,
     after |-> after]

\* ------------------------------------------------------------------ Init
\* The state after the first render: useState<boolean>(false), no timer.
Mounted(v) ==
    /\ variant = v
    /\ isOpen = FALSE
    /\ mounted = TRUE
    /\ timers = {}
    /\ calls = <<>>
    /\ log = <<>>

Init == Mounted("duration")

\* The first render of the variant reading t/callBack where no global `open`
\* exists: the object it returns names `open`, which the module does not
\* declare, so the render throws and no instance is mounted.
RenderThrew ==
    /\ variant = "t"
    /\ isOpen = FALSE
    /\ mounted = FALSE
    /\ timers = {}
    /\ calls = <<>>
    /\ log = <<Event("ReferenceError", "render", 0, <<>>, {}, 0)>>

\* Either variant after its first render; the render of the variant that
\* names `open` succeeds where a global `open` exists (a browser) and throws
\* where none does.
InitNames ==
    \/ \E v \in Variants : Mounted(v)
    \/ RenderThrew

\* --------------------------------------------------------------- actions
\* openFor(opts): setIsOpen(true) at once, then a timer that closes.
openFor(opts) ==
    /\ mounted
    /\ isOpen' = setIsOpen(TRUE)
    /\ timers' = setTimeout("openFor", FALSE, opts)
    /\ calls' = Append(calls, [op |-> "openFor", opts |-> opts])
    /\ log' = Append(log, Event("setIsOpen", "call", nextId, <<TRUE>>, {}, 0))
    /\ UNCHANGED <<variant, mounted>>

\* An action that also writes nextState at the call.
action_Sync(op, nextState, opts) ==
    /\ mounted
    /\ isOpen' = setIsOpen(nextState)
    /\ timers' = setTimeout(op, nextState, opts)
    /\ calls' = Append(calls, [op |-> op, opts |-> opts])
    /\ UNCHANGED <<variant, mounted, log>>

\* action(nextState, opts): a timer only.
action(op, nextState, opts) ==
    /\ mounted
    /\ timers' = setTimeout(op, nextState, opts)
    /\ calls' = Append(calls, [op |-> op, opts |-> opts])
    /\ UNCHANGED <<variant, isOpen, mounted, log>>

\* openIn and closeIn with the next state of the other.
openIn_Closes(opts) == action("openIn", FALSE, opts)
closeIn_Opens(opts) == action("closeIn", TRUE, opts)

openIn(opts) == action("openIn", TRUE, opts)

closeIn(opts) == action("closeIn", FALSE, opts)

\* A timer queue that runs the due timer registered last.
IsNext_LastRegistered(tm) ==
    /\ tm \in timers
    /\ tm.remaining = 0
    /\ \A o \in timers : o.remaining = 0 => o.id <= tm.id

\* The pending timer the platform runs next: due, and the first registered
\* of those that are.
IsNext(tm) ==
    /\ tm \in timers
    /\ tm.remaining = 0
    /\ \A o \in timers : o.remaining = 0 => o.id >= tm.id

\* f(): the invocation of a callback; calling undefined is a TypeError.
Invoke(tm, f) ==
    Event(IF f = {} THEN "TypeError" ELSE "callback", "timer", tm.id, <<>>, f,
          tm.elapsed)

\* A timer body that invokes the callback twice.
TimerBody_CallsTwice(tm) ==
    <<Event("setIsOpen", "timer", tm.id, <<tm.nextState>>, {}, tm.elapsed)>>
    \o (IF Callback(variant, tm.opts) # {}
        THEN <<Invoke(tm, Callback(variant, tm.opts)),
               Invoke(tm, Callback(variant, tm.opts))>>
        ELSE <<>>)

\* A timer body that invokes the callback without testing it.
TimerBody_Unguarded(tm) ==
    <<Event("setIsOpen", "timer", tm.id, <<tm.nextState>>, {}, tm.elapsed),
      Invoke(tm, Callback(variant, tm.opts))>>

\* A timer body that invokes the callback before it writes the flag.
TimerBody_CallbackFirst(tm) ==
    (IF Callback(variant, tm.opts) # {}
     THEN <<Invoke(tm, Callback(variant, tm.opts))>>
     ELSE <<>>)
    \o <<Event("setIsOpen", "timer", tm.id, <<tm.nextState>>, {}, tm.elapsed)>>

\* The body of a timer: setIsOpen(nextState), then
\* opts.callback && opts.callback().
TimerBody(tm) ==
    <<Event("setIsOpen", "timer", tm.id, <<tm.nextState>>, {}, tm.elapsed)>>
    \o (IF Callback(variant, tm.opts) # {}
        THEN <<Invoke(tm, Callback(variant, tm.opts))>>
        ELSE <<>>)

Fire ==
    \E tm \in timers :
        /\ IsNext(tm)
        /\ isOpen' = setIsOpen(tm.nextState)
        /\ log' = log \o TimerBody(tm)
        /\ timers' = timers \ {tm}
        /\ UNCHANGED <<variant, mounted, calls>>

\* A clock that does not advance.
Tick_Frozen ==
    /\ timers # {}
    /\ \A tm \in timers : tm.remaining > 0
    /\ UNCHANGED <<variant, isOpen, mounted, timers, calls, log>>

\* One time unit passes for every pending timer.
Tick ==
    /\ timers # {}
    /\ \A tm \in timers : tm.remaining > 0
    /\ timers' = {[tm EXCEPT !.remaining = @ - 1, !.elapsed = @ + 1] : tm \in timers}
    /\ UNCHANGED <<variant, isOpen, mounted, calls, log>>

\* An unmount that clears the pending timers.
Unmount_Cleanup ==
    /\ mounted
    /\ mounted' = FALSE
    /\ timers' = {}
    /\ UNCHANGED <<variant, isOpen, calls, log>>

\* The owning component unmounts; pending timers stay registered.
Unmount ==
    /\ mounted
    /\ mounted' = FALSE
    /\ UNCHANGED <<variant, isOpen, timers, calls, log>>

\* ------------------------------------------------------- the environment
\* The options of a caller that uses the names the variant reads.
OwnOpts ==
    {o \in TemporaryDisclosureFunctionOpts :
        IF variant = "duration" THEN o.t = {} /\ o.callBack = {}
                                ELSE o.duration = {} /\ o.callback = {}}

CallOpenFor == Len(calls) < MaxCalls /\ \E opts \in OwnOpts : openFor(opts)
CallOpenIn == Len(calls) < MaxCalls /\ \E opts \in OwnOpts : openIn(opts)
CallCloseIn == Len(calls) < MaxCalls /\ \E opts \in OwnOpts : closeIn(opts)

Next ==
    \/ CallOpenFor
    \/ CallOpenIn
    \/ CallCloseIn
    \/ Fire
    \/ Tick
    \/ Unmount

Spec == Init /\ [][Next]_vars

\* The options of a caller that gives a duration of 0 or more (an omitted or
\* a negative one registers the timer a duration of 0 does).
TimedOpts ==
    {o \in OwnOpts : o.duration # {} /\ \A d \in o.duration : d >= 0}

TimedOpenFor == Len(calls) < MaxCalls /\ \E opts \in TimedOpts : openFor(opts)
TimedOpenIn == Len(calls) < MaxCalls /\ \E opts \in TimedOpts : openIn(opts)
TimedCloseIn == Len(calls) < MaxCalls /\ \E opts \in TimedOpts : closeIn(opts)

NextLive ==
    \/ TimedOpenFor
    \/ TimedOpenIn
    \/ TimedCloseIn
    \/ Fire
    \/ Tick
    \/ Unmount

\* The event loop runs every timer that is due, and time passes.
SpecLive == Init /\ [][NextLive]_vars /\ WF_vars(Fire) /\ WF_vars(Tick)

\* A caller that passes the options under either set of names, whatever the
\* variant reads.
NamedOpenFor ==
    Len(calls) < MaxNamedCalls
    /\ \E opts \in TemporaryDisclosureFunctionOpts : openFor(opts)
NamedOpenIn ==
    Len(calls) < MaxNamedCalls
    /\ \E opts \in TemporaryDisclosureFunctionOpts : openIn(opts)
NamedCloseIn ==
    Len(calls) < MaxNamedCalls
    /\ \E opts \in TemporaryDisclosureFunctionOpts : closeIn(opts)

NextNames ==
    \/ NamedOpenFor
    \/ NamedOpenIn
    \/ NamedCloseIn
    \/ Fire
    \/ Tick
    \/ Unmount

SpecNames == InitNames /\ [][NextNames]_vars

\* ------------------------------------------------- reading the trace
PendingIds == {tm.id : tm \in timers}

\* The positions of the trace where the timer of call id wrote the flag.
TimerWrites(id) ==
    {i \in DOMAIN log :
        log[i].ev = "setIsOpen" /\ log[i].phase = "timer" /\ log[i].id = id}

\* The positions of the trace where the callback of call id was invoked.
Invocations(id) ==
    {i \in DOMAIN log : log[i].ev = "callback" /\ log[i].id = id}

\* The delay and the callback call id asked for, under the names its variant
\* reads.
DelayOf(id) == Delay(variant, calls[id].opts)
CallbackOf(id) == Callback(variant, calls[id].opts)

\* This step is a call of op.
Called(op) ==
    /\ Len(calls') = Len(calls) + 1
    /\ calls'[Len(calls')].op = op

\* This step is the firing of the pending timer tm.
Fires(tm) ==
    /\ tm \in timers
    /\ calls' = calls
    /\ tm.id \notin {o.id : o \in timers'}

\* What the firing of tm adds to the trace when it writes val and then
\* invokes the callback it was given, if any.
WriteThenCallback(tm, val) ==
    <<Event("setIsOpen", "timer", tm.id, <<val>>, {}, tm.elapsed)>>
    \o (IF Callback(variant, tm.opts) = {} THEN <<>>
        ELSE <<Event("callback", "timer", tm.id, <<>>,
                     Callback(variant, tm.opts), tm.elapsed)>>)

\* ------------------------------------------------------------------- C1
\* C1 as stated: after openFor({duration: d}) with d >= 0, isOpen is true
\* and does not become false earlier than d time units after the call: on
\* a mounted instance isOpen is true while the d time units of a pending
\* openFor have not yet passed.
C1_OpenUntilDuration ==
    \A tm \in timers :
        (mounted /\ tm.op = "openFor" /\ tm.elapsed < Delay(variant, tm.opts))
            => isOpen

\* C1, amended: isOpen is true when openFor({duration: d}), d >= 0, returns;
\* the close transition of that call is not applied earlier than d time
\* units after the call; and while it is pending isOpen is false only after
\* the closing transition of another call has fired since the call.
C1_OpenThenOwnCloseAfterDuration ==
    /\ \A tm \in timers :
          tm.op = "openFor" =>
            \E i \in DOMAIN log :
                /\ log[i] = Event("setIsOpen", "call", tm.id, <<TRUE>>, {}, 0)
                /\ \/ isOpen
                   \/ \E j \in DOMAIN log :
                        /\ j > i
                        /\ log[j].ev = "setIsOpen"
                        /\ log[j].phase = "timer"
                        /\ log[j].args = <<FALSE>>
                        /\ log[j].id # tm.id
    /\ \A id \in DOMAIN calls :
          calls[id].op = "openFor" =>
            \A i \in TimerWrites(id) :
                /\ log[i].args = <<FALSE>>
                /\ DelayOf(id) >= 0 => log[i].after >= DelayOf(id)

\* An openFor with a positive duration has closed by its own timer, with no
\* other call in the run.
C1_Witness ==
    /\ Len(calls) = 1
    /\ calls[1].op = "openFor"
    /\ DelayOf(1) > 0
    /\ TimerWrites(1) # {}
    /\ isOpen = FALSE

\* ------------------------------------------------------------------- C3
\* C3: an openIn call leaves isOpen as it is (and issues no write); when its
\* timer fires, no earlier than the delay after the call, setIsOpen(true) is
\* issued (isOpen is true on a mounted instance) and then the callback, if
\* one was given, is invoked.
C3_OpenIn ==
    [][ /\ Called("openIn") => (isOpen' = isOpen /\ log' = log)
        /\ \A tm \in timers :
              (tm.op = "openIn" /\ Fires(tm)) =>
                  /\ tm.elapsed >= Delay(variant, tm.opts)
                  /\ mounted => isOpen' = TRUE
                  /\ log' = log \o WriteThenCallback(tm, TRUE) ]_vars

\* An openIn timer with a callback has fired on a closed, mounted instance.
C3_Witness ==
    \E id \in DOMAIN calls :
        /\ calls[id].op = "openIn"
        /\ CallbackOf(id) # {}
        /\ DelayOf(id) > 0
        /\ Len(log) = 2
        /\ TimerWrites(id) = {1}
        /\ Invocations(id) = {2}
        /\ mounted
        /\ isOpen

\* ------------------------------------------------------------------- C4
\* C4: a closeIn call leaves isOpen as it is (and issues no write); when its
\* timer fires, no earlier than the delay after the call, setIsOpen(false)
\* is issued (isOpen is false on a mounted instance) and then the callback,
\* if one was given, is invoked.
C4_CloseIn ==
    [][ /\ Called("closeIn") => (isOpen' = isOpen /\ log' = log)
        /\ \A tm \in timers :
              (tm.op = "closeIn" /\ Fires(tm)) =>
                  /\ tm.elapsed >= Delay(variant, tm.opts)
                  /\ mounted => isOpen' = FALSE
                  /\ log' = log \o WriteThenCallback(tm, FALSE) ]_vars

\* A closeIn timer with a callback has fired on an open, mounted instance:
\* the run opened with openFor and closeIn closed it first.
C4_Witness ==
    /\ Len(calls) = 2
    /\ calls[1].op = "openFor"
    /\ calls[2].op = "closeIn"
    /\ CallbackOf(2) # {}
    /\ Len(log) = 3
    /\ TimerWrites(2) = {2}
    /\ Invocations(2) = {3}
    /\ mounted
    /\ ~isOpen

\* ------------------------------------------------------------------- C2
\* C2: in every variant the delay a call applies is the value of its option
\* `duration` (0 when omitted) and the procedure its timer invokes is the
\* one given in its option `callback` (none when omitted).
C2_DocumentedNames ==
    /\ \A tm \in timers :
          tm.remaining + tm.elapsed = Clamp(OrZero(tm.opts.duration))
    /\ \A id \in DOMAIN calls :
          id \notin PendingIds =>
            /\ \A i \in Invocations(id) : log[i].cb = calls[id].opts.callback
            /\ calls[id].opts.callback # {} => Invocations(id) # {}

\* ------------------------------------------------------------------- C5
\* The calls that supplied a callback which has not been invoked yet.
Unserved ==
    {id \in DOMAIN calls : CallbackOf(id) # {} /\ Invocations(id) = {}}

\* C5: the callback of a call that supplies one is invoked at most once, with
\* no arguments, and is eventually invoked (no call stays unserved); and the
\* firing of an openIn with a callback, which is at once for delay 0, leads
\* to a state where the callback has been invoked exactly once and, the
\* instance being mounted, isOpen is true.
C5_CallbackOnce ==
    /\ [](\A id \in DOMAIN calls :
            /\ Cardinality(Invocations(id)) <= 1
            /\ \A i \in Invocations(id) :
                  log[i].args = <<>> /\ log[i].cb = CallbackOf(id))
    /\ [][ \A tm \in timers :
             (Fires(tm) /\ tm.op = "openIn" /\ Callback(variant, tm.opts) # {}) =>
                 /\ tm.id \in Unserved
                 /\ tm.id \notin Unserved'
                 /\ Cardinality(Invocations(tm.id)') = 1
                 /\ mounted => isOpen' ]_vars
    /\ []<>(Unserved = {})

\* openIn({duration: 0, callback: cb}) has fired on a mounted instance.
C5_Witness ==
    /\ Len(calls) = 1
    /\ calls[1].op = "openIn"
    /\ DelayOf(1) = 0
    /\ CallbackOf(1) # {}
    /\ Cardinality(Invocations(1)) = 1
    /\ mounted
    /\ isOpen

\* ------------------------------------------------------------------- C6
\* The options give no callback, under either name.
NoCallback(opts) == opts.callback = {} /\ opts.callBack = {}

\* C6: in either variant a call without a callback and the firing of its
\* timer raise no error and invoke nothing; the firing still issues the write
\* of its target (isOpen takes it on a mounted instance).
C6_NoCallback ==
    [][ /\ \A op \in {"openFor", "openIn", "closeIn"} :
              (Called(op) /\ NoCallback(calls'[Len(calls')].opts)) =>
                  /\ \A i \in DOMAIN log' : log'[i].ev = "setIsOpen"
                     \/ log'[i].id # Len(calls')
                  /\ \E tm \in timers' : tm.id = Len(calls')
        /\ \A tm \in timers :
              (Fires(tm) /\ NoCallback(tm.opts)) =>
                  /\ log' = Append(log, Event("setIsOpen", "timer", tm.id,
                                              <<tm.op = "openIn">>, {}, tm.elapsed))
                  /\ mounted => isOpen' = (tm.op = "openIn") ]_vars

\* In the variant reading t/callBack, openFor without a callback has opened
\* the flag and its timer has closed it.
C6_Witness ==
    /\ variant = "t"
    /\ Len(calls) = 1
    /\ calls[1].op = "openFor"
    /\ NoCallback(calls[1].opts)
    /\ timers = {}
    /\ Len(log) = 2
    /\ mounted
    /\ ~isOpen

\* ------------------------------------------------------------------- C7
\* The value the timer of an operation writes.
TargetOf(op) == op = "openIn"

\* C7: every call owns exactly one transition, pending or fired once; a call
\* adds its timer and leaves the pending ones as they are; a firing issues
\* the write of its target whatever isOpen is and leaves the other pending
\* timers as they are; and every transition eventually fires (time and again
\* nothing is pending).
C7_NeverCancelled ==
    /\ [](\A id \in DOMAIN calls :
            /\ Cardinality({tm \in timers : tm.id = id})
                 + Cardinality(TimerWrites(id)) = 1
            /\ \A i \in TimerWrites(id) :
                  log[i].args = <<TargetOf(calls[id].op)>>)
    /\ [][ /\ Len(calls') > Len(calls) =>
                /\ timers \subseteq timers'
                /\ Cardinality(timers') = Cardinality(timers) + 1
           /\ \A tm \in timers :
                Fires(tm) =>
                    /\ timers' = timers \ {tm}
                    /\ mounted => isOpen' = TargetOf(tm.op) ]_vars
    /\ []<>(timers = {})

\* Two transitions were pending together and both have fired, the second
\* writing the value isOpen already had.
C7_Witness ==
    /\ Len(calls) = 2
    /\ calls[1].op = "closeIn"
    /\ calls[2].op = "closeIn"
    /\ DelayOf(1) > 0
    /\ DelayOf(2) > 0
    /\ TimerWrites(1) # {}
    /\ TimerWrites(2) # {}

\* ------------------------------------------------------------------- C8
\* The positions of the trace where the flag was written.
Writes == {i \in DOMAIN log : log[i].ev = "setIsOpen"}

\* The last position of a non-empty set of positions.
Last(S) == CHOOSE i \in S : \A j \in S : j <= i

\* C8 as stated: transitions fire ordered by delay and then by call order:
\* of two calls whose timers have fired, the one with the smaller delay, or
\* with the same delay and made first, fired first.
C8_DelayThenCallOrder ==
    \A i, j \in DOMAIN calls :
        (/\ TimerWrites(i) # {}
         /\ TimerWrites(j) # {}
         /\ \/ Clamp(DelayOf(i)) < Clamp(DelayOf(j))
            \/ (Clamp(DelayOf(i)) = Clamp(DelayOf(j)) /\ i < j))
            => Last(TimerWrites(i)) < Last(TimerWrites(j))

\* C8, amended: transitions fire ordered by the time they fall due (the time
\* of the call plus the delay) and then by call order, so the transitions of
\* calls made at the same instant fire in delay order and then call order;
\* once nothing is pending isOpen is the target of the last transition that
\* fired; and for openFor followed at once by a closeIn of a smaller delay,
\* isOpen is true while both are pending and false once closeIn's has fired.
C8_DueThenCallOrder ==
    /\ [][ \A tm \in timers :
             Fires(tm) =>
               \A o \in timers \ {tm} :
                 /\ \/ tm.remaining < o.remaining
                    \/ (tm.remaining = o.remaining /\ tm.id < o.id)
                 /\ o.elapsed = tm.elapsed =>
                      \/ Clamp(Delay(variant, tm.opts)) < Clamp(Delay(variant, o.opts))
                      \/ /\ Clamp(Delay(variant, tm.opts)) = Clamp(Delay(variant, o.opts))
                         /\ tm.id < o.id ]_vars
    /\ []((timers = {} /\ mounted /\ calls # <<>>) =>
            /\ log[Last(Writes)].phase = "timer"
            /\ isOpen = log[Last(Writes)].args[1])
    /\ []((/\ Len(calls) = 2
           /\ calls[1].op = "openFor"
           /\ calls[2].op = "closeIn"
           /\ Clamp(DelayOf(2)) < Clamp(DelayOf(1))
           /\ mounted) =>
            /\ (\E a, b \in timers : a.id = 1 /\ b.id = 2 /\ a.elapsed = b.elapsed)
                  => isOpen
            /\ (1 \in PendingIds /\ 2 \notin PendingIds) => ~isOpen)

\* openFor with a callback, at once closeIn with a smaller delay and a
\* callback: the flag was written true, false by closeIn, false again by
\* openFor's timer, and closeIn's callback ran before openFor's.
C8_Witness ==
    /\ Len(calls) = 2
    /\ calls[1].op = "openFor"
    /\ calls[2].op = "closeIn"
    /\ Clamp(DelayOf(2)) < Clamp(DelayOf(1))
    /\ Len(log) = 5
    /\ log[1] = Event("setIsOpen", "call", 1, <<TRUE>>, {}, 0)
    /\ log[2] = Event("setIsOpen", "timer", 2, <<FALSE>>, {}, DelayOf(2))
    /\ log[3].ev = "callback" /\ log[3].id = 2
    /\ log[4] = Event("setIsOpen", "timer", 1, <<FALSE>>, {}, DelayOf(1))
    /\ log[5].ev = "callback" /\ log[5].id = 1
    /\ mounted
    /\ ~isOpen

\* ------------------------------------------------------------------- C9
\* C9 as stated: at most one scheduled state change is in flight.
C9_AtMostOnePending == Cardinality(timers) <= 1

\* C9, amended: one scheduled state change is in flight for every call whose
\* timer has not fired yet, none being replaced or cancelled by a later
\* call, so more than one can be in flight.
C9_OnePendingPerUnfiredCall ==
    /\ Cardinality(PendingIds) = Cardinality(timers)
    /\ PendingIds = {id \in DOMAIN calls : TimerWrites(id) = {}}

\* Two scheduled state changes are in flight.
C9_Witness == Cardinality(timers) = 2

\* ------------------------------------------------------------------ C10
\* C10 as stated: isOpen (of a mounted instance) is the target of the
\* scheduled transition applied most recently, false when none was.
C10_LastScheduledTransition ==
    mounted =>
        isOpen = (IF \E id \in DOMAIN calls : TimerWrites(id) # {}
                  THEN log[Last(UNION {TimerWrites(id) : id \in DOMAIN calls})].args[1]
                  ELSE FALSE)

\* C10, amended: isOpen (of a mounted instance) is the value written most
\* recently, by a scheduled transition or by the immediate open of a later
\* openFor call; it is false when nothing was written.
C10_LastWrite ==
    mounted =>
        isOpen = (IF Writes # {} THEN log[Last(Writes)].args[1] ELSE FALSE)

\* A closeIn transition was applied and an openFor call made after it: the
\* flag is true though the last transition applied has the target false.
C10_Witness ==
    /\ Len(calls) = 2
    /\ calls[1].op = "closeIn"
    /\ calls[2].op = "openFor"
    /\ TimerWrites(1) # {}
    /\ 2 \in PendingIds
    /\ mounted
    /\ isOpen

\* ------------------------------------------------------------------ C11
\* The duration is omitted, 0 or negative.
Falsy(opts) == opts.duration = {} \/ \E d \in opts.duration : d <= 0

\* C11: a call whose duration is omitted, 0 or negative (a negative one is
\* passed to setTimeout as it is) registers a timer that is due at once and
\* still pending when the call returns: openIn and closeIn leave isOpen and
\* the trace as they are, and openFor only issues its opening write, so
\* isOpen is true when it returns.
C11_FalsyDurationLaterTick ==
    [][ \A op \in {"openFor", "openIn", "closeIn"} :
          (Called(op) /\ Falsy(calls'[Len(calls')].opts)) =>
              /\ \E tm \in timers' :
                    /\ tm.id = Len(calls')
                    /\ tm.remaining = 0
                    /\ tm.elapsed = 0
              /\ \A d \in calls'[Len(calls')].opts.duration :
                    Delay(variant, calls'[Len(calls')].opts) = d
              /\ op # "openFor" => (isOpen' = isOpen /\ log' = log)
              /\ op = "openFor" =>
                    /\ isOpen'
                    /\ log' = Append(log, Event("setIsOpen", "call", Len(calls'),
                                                <<TRUE>>, {}, 0)) ]_vars

\* openFor({duration: -1}) has returned: the flag is open and the close is
\* pending, due at once.
C11_Witness ==
    \E tm \in timers :
        /\ tm.op = "openFor"
        /\ tm.opts.duration = {-1}
        /\ tm.remaining = 0
        /\ TimerWrites(tm.id) = {}
        /\ mounted
        /\ isOpen

\* ------------------------------------------------------------------ C12
\* The value of the flag of an instance mounted throughout, after the first
\* n entries of the trace.
ValueAt(n) ==
    IF {j \in Writes : j <= n} = {} THEN FALSE
    ELSE log[Last({j \in Writes : j <= n})].args[1]

\* C12 as stated: when closeIn was called on a closed (mounted) instance,
\* isOpen is false before and after the firing of its timer, which invokes
\* the callback.
C12_ClosedBeforeAndAfter ==
    [][ \A tm \in timers :
          (mounted /\ Fires(tm) /\ tm.op = "closeIn" /\ ~ValueAt(tm.seen)) =>
              /\ ~isOpen
              /\ ~isOpen'
              /\ log' = log \o WriteThenCallback(tm, FALSE) ]_vars

\* C12, amended: when closeIn was called on a closed (mounted) instance, its
\* timer fires no earlier than the delay after the call, invokes the
\* callback and leaves isOpen false; isOpen is false before the firing too
\* unless an openFor call or the firing of an openIn has written true since
\* the closeIn call.
C12_ClosedAfterAndBeforeUnlessOpened ==
    [][ \A tm \in timers :
          (mounted /\ Fires(tm) /\ tm.op = "closeIn" /\ ~ValueAt(tm.seen)) =>
              /\ tm.elapsed >= Delay(variant, tm.opts)
              /\ log' = log \o WriteThenCallback(tm, FALSE)
              /\ ~isOpen'
              /\ isOpen =>
                    \E j \in (tm.seen + 1)..Len(log) :
                        /\ log[j].ev = "setIsOpen"
                        /\ log[j].args = <<TRUE>>
                        /\ calls[log[j].id].op \in {"openFor", "openIn"} ]_vars

\* closeIn with a callback and a positive delay, called on a closed
\* instance and alone in the run, has fired.
C12_Witness ==
    /\ Len(calls) = 1
    /\ calls[1].op = "closeIn"
    /\ DelayOf(1) > 0
    /\ Invocations(1) = {2}
    /\ mounted
    /\ ~isOpen

\* ------------------------------------------------------------------ C13
\* The positions of the trace where a callback was invoked.
CallbackEvents(l) == {i \in DOMAIN l : l[i].ev = "callback"}

\* C13 as stated: once the component has unmounted, the firing of a pending
\* transition has no effect: it neither changes isOpen nor invokes a callback.
C13_NoEffectAfterUnmount ==
    [][ ~mounted => (isOpen' = isOpen
                     /\ CallbackEvents(log') = CallbackEvents(log)) ]_vars

\* C13, amended: once the component has unmounted, the firing of a pending
\* transition does not change isOpen (its write is dropped), but its timer
\* body still runs: setIsOpen is called and the callback, if one was given,
\* is invoked.
C13_FlagUntouchedCallbackInvoked ==
    [][ ~mounted =>
          /\ isOpen' = isOpen
          /\ \A tm \in timers :
                Fires(tm) =>
                    log' = log \o WriteThenCallback(tm, TargetOf(tm.op)) ]_vars

\* An openIn with a callback fired after the unmount: the flag is still
\* closed and the callback has been invoked.
C13_Witness ==
    /\ Len(calls) = 1
    /\ calls[1].op = "openIn"
    /\ Invocations(1) = {2}
    /\ ~mounted
    /\ ~isOpen

\* ------------------------------------------------------------------ C14
\* C14: a pending transition stays pending, over calls and over the unmount,
\* until it fires, when it is due, issuing its write and invoking its
\* callback; and the transitions pending at the unmount do fire: an unmounted
\* instance (no call reaches it any more) is again and again, hence in the
\* end, without a pending transition.
C14_NotWithdrawn ==
    /\ [][ \A tm \in timers :
             \/ tm.id \in {o.id : o \in timers'}
             \/ /\ Fires(tm)
                /\ tm.remaining = 0
                /\ log' = log \o WriteThenCallback(tm, TargetOf(tm.op)) ]_vars
    /\ []<>(mounted \/ timers = {})

\* An openFor with a callback and a positive duration was pending at the
\* unmount and has fired since: its callback was invoked, its close dropped.
C14_Witness ==
    /\ Len(calls) = 1
    /\ calls[1].op = "openFor"
    /\ DelayOf(1) > 0
    /\ Invocations(1) = {3}
    /\ ~mounted
    /\ isOpen

\* ------------------------------------------------------------------ C15
\* C15: in every timer firing of openFor, openIn and closeIn the write to
\* isOpen is issued before the callback is invoked: every invocation of a
\* callback in the trace comes right after the write of the target of its own
\* transition, issued in the same firing.
C15_WriteBeforeCallback ==
    \A i \in CallbackEvents(log) :
        /\ i - 1 \in TimerWrites(log[i].id)
        /\ log[i - 1].args = <<TargetOf(calls[log[i].id].op)>>
        /\ log[i - 1].after = log[i].after
        /\ \A j \in TimerWrites(log[i].id) : j < i

\* A closeIn and an openIn, each with a callback, have both fired.
C15_Witness ==
    /\ Len(calls) = 2
    /\ calls[1].op = "closeIn"
    /\ calls[2].op = "openIn"
    /\ Invocations(1) # {}
    /\ Invocations(2) # {}

\* ------------------------------------------------------------------ C16
\* C16: isOpen is false in the initial state; it changes to true only by an
\* openFor call or the firing of an openIn transition, and to false only by
\* the firing of a closeIn transition or of the close of an openFor; a call
\* of openIn or closeIn leaves it as it is.
C16_WhoChangesIsOpen ==
    /\ isOpen = FALSE
    /\ [][ /\ (~isOpen /\ isOpen') =>
                \/ Called("openFor")
                \/ \E tm \in timers : tm.op = "openIn" /\ Fires(tm)
           /\ (isOpen /\ ~isOpen') =>
                \E tm \in timers : tm.op \in {"closeIn", "openFor"} /\ Fires(tm)
           /\ (Called("openIn") \/ Called("closeIn")) => isOpen' = isOpen ]_vars

\* The flag was opened by the firing of an openIn and then closed by the
\* firing of a closeIn, a positive delay after its call.
C16_Witness ==
    /\ Len(calls) = 2
    /\ calls[1].op = "openIn"
    /\ calls[2].op = "closeIn"
    /\ Writes = {1, 2}
    /\ log[1].id = 1
    /\ log[2].id = 2
    /\ log[2].after > 0
    /\ mounted
    /\ ~isOpen

\* ------------------------------------------------------------------ C17
\* The positions of the trace where a timer wrote the flag.
Fired == {i \in Writes : log[i].phase = "timer"}

\* C17: the calls being finitely many, the system reaches a state with no
\* pending transition and stays there; with no pending transition and no
\* further call isOpen does not change, and on a mounted instance it is the
\* target of the transition that fired last.
C17_Quiescence ==
    /\ <>[](timers = {})
    /\ [][ (timers = {} /\ Len(calls') = Len(calls)) => isOpen' = isOpen ]_vars
    /\ []( (timers = {} /\ mounted /\ Fired # {}) =>
             isOpen = TargetOf(calls[log[Last(Fired)].id].op) )

\* Two calls were made, an openFor and an openIn, and both have fired, the
\* openIn last: nothing is pending and the flag is open.
C17_Witness ==
    /\ Len(calls) = 2
    /\ calls[1].op = "openFor"
    /\ calls[2].op = "openIn"
    /\ timers = {}
    /\ Fired = {2, 3}
    /\ log[3].id = 2
    /\ mounted
    /\ isOpen

\* ------------------------------------------------------------------ C18
\* The other variant, and the options under the names the other variant
\* reads.
Other(v) == IF v = "duration" THEN "t" ELSE "duration"
Rename(opts) ==
    [duration |-> opts.t, callback |-> opts.callBack,
     t |-> opts.duration, callBack |-> opts.callback]

\* The variant of this run handles its calls as the other variant handles the
\* same calls with the option fields renamed: the same delay for every timer,
\* the same callback in every invocation, and an invocation wherever the
\* other variant has one.
SameUnderRenaming ==
    /\ \A tm \in timers :
          /\ tm.remaining + tm.elapsed
                = Clamp(Delay(Other(variant), Rename(tm.opts)))
          /\ tm.nextState = TargetOf(tm.op)
    /\ \A i \in CallbackEvents(log) :
          log[i].cb = Callback(Other(variant), Rename(calls[log[i].id].opts))
    /\ \A id \in DOMAIN calls :
          (TimerWrites(id) # {}
           /\ Callback(Other(variant), Rename(calls[id].opts)) # {})
              => Invocations(id) # {}

\* C18 as stated: the two variants are equivalent under the renaming of the
\* option fields: both render to the initial state (isOpen false, no error),
\* and for the same calls with the same delays and callbacks they produce the
\* same isOpen values and callback invocations.
C18_Equivalent ==
    /\ \A i \in DOMAIN log : log[i].ev # "ReferenceError"
    /\ SameUnderRenaming

====
